---------------------------- MODULE Spec2Model ----------------------------
(***************************************************************************)
(* Model of bot.py: a Telegram bot that walks a user through language      *)
(* selection, bit-width selection and address input, and answers an        *)
(* address with a picture of a DIP switch bank.                            *)
(*                                                                         *)
(* Conventions.  A Python str is a sequence of one-character strings.  A   *)
(* value that may be absent (a dict key, the result of a call that may     *)
(* raise) is a set with no element or with one element.                    *)
(***************************************************************************)
EXTENDS Integers, Sequences, FiniteSets, TLC

(***************************************************************************)
(* Bounds of the model.                                                    *)
(***************************************************************************)
\* Users are 1..NumUsers.
NumUsers == 2

Users == 1..NumUsers

(***************************************************************************)
(* Python primitives used by the handlers.                                 *)
(***************************************************************************)
Digits == <<"0", "1", "2", "3", "4", "5", "6", "7", "8", "9">>

IsDigit(c) == \E i \in 1..Len(Digits) : Digits[i] = c

DigitVal(c) == (CHOOSE i \in 1..Len(Digits) : Digits[i] = c) - 1

IsSpace(c) == c \in {" ", "\t", "\n"}

\* The single element of a one-element set.
The(S) == CHOOSE x \in S : TRUE

\* s[a..b], empty when a > b.
Slice(s, a, b) == [i \in 1..(IF b >= a THEN b - a + 1 ELSE 0) |-> s[a + i - 1]]

\* str.strip(): drop leading and trailing whitespace.
Strip(s) ==
    LET keep == {i \in 1..Len(s) : ~IsSpace(s[i])}
    IN  IF keep = {} THEN <<>>
        ELSE LET lo == CHOOSE i \in keep : \A j \in keep : i <= j
                 hi == CHOOSE i \in keep : \A j \in keep : i >= j
             IN  Slice(s, lo, hi)

\* The value of a string of digits and underscores, most significant first.
RECURSIVE DigitsValue(_)
DigitsValue(s) ==
    IF Len(s) = 0 THEN 0
    ELSE IF s[Len(s)] = "_" THEN DigitsValue(Slice(s, 1, Len(s) - 1))
    ELSE 10 * DigitsValue(Slice(s, 1, Len(s) - 1)) + DigitVal(s[Len(s)])

\* int(s): surrounding whitespace is ignored, then an optional sign, then
\* decimal digits which single underscores may separate.  {} is ValueError.
PyInt(s) ==
    LET t    == Strip(s)
        sgn  == Len(t) > 0 /\ t[1] \in {"+", "-"}
        body == IF sgn THEN Slice(t, 2, Len(t)) ELSE t
        ok   == /\ Len(body) > 0
                /\ \A i \in 1..Len(body) : IsDigit(body[i]) \/ body[i] = "_"
                /\ IsDigit(body[1])
                /\ IsDigit(body[Len(body)])
                /\ \A i \in 1..(Len(body) - 1) : ~(body[i] = "_" /\ body[i + 1] = "_")
    IN  IF ~ok THEN {}
        ELSE IF sgn /\ t[1] = "-" THEN {0 - DigitsValue(body)}
        ELSE {DigitsValue(body)}

\* str(n) of a non-negative int.
RECURSIVE NatStr(_)
NatStr(n) == IF n < 10 THEN <<Digits[n + 1]>>
             ELSE NatStr(n \div 10) \o <<Digits[(n % 10) + 1]>>

\* str(n) of an int.
IntStr(n) == IF n < 0 THEN <<"-">> \o NatStr(0 - n) ELSE NatStr(n)

\* s.split(sep): the pieces of s between occurrences of the character sep.
RECURSIVE Split(_, _)
Split(s, sep) ==
    LET hits == {i \in 1..Len(s) : s[i] = sep}
    IN  IF hits = {} THEN <<s>>
        ELSE LET k == CHOOSE i \in hits : \A j \in hits : i <= j
             IN  <<Slice(s, 1, k - 1)>> \o Split(Slice(s, k + 1, Len(s)), sep)

\* s[::-1]
Reverse(s) == [i \in 1..Len(s) |-> s[Len(s) + 1 - i]]

\* 2 ** n for n >= 0.
RECURSIVE Pow(_, _)
Pow(b, n) == IF n <= 0 THEN 1 ELSE b * Pow(b, n - 1)


(***************************************************************************)
(* Numbers.  bits is whatever int() made of the button payload, so         *)
(* 2 ** bits is an int for bits >= 0 and the float 1 / 2^(-bits)           *)
(* otherwise.  A number is the pair <<numerator, denominator>> with a      *)
(* denominator that is a power of two (exact for floats while              *)
(* -bits <= 53).                                                           *)
(***************************************************************************)
\* 2 ** bits
Pow2(bits) == IF bits >= 0 THEN <<Pow(2, bits), 1>> ELSE <<1, Pow(2, 0 - bits)>>

\* (2 ** bits) - 1
MaxValueOf(bits) == LET p == Pow2(bits) IN <<p[1] - p[2], p[2]>>

\* Exceeds with the comparison off by one (>= for >).
ExceedsInclusive(address, q) == address * q[2] >= q[1]

\* address > max_value, for an int address
Exceeds(address, q) == address * q[2] > q[1]

\* s left-padded with "0" to length n
ZeroPad(s, n) == [i \in 1..(IF n > Len(s) THEN n - Len(s) ELSE 0) |-> "0"] \o s

\* The exponent of a power of two.
RECURSIVE Log2(_)
Log2(d) == IF d <= 1 THEN 0 ELSE 1 + Log2(d \div 2)

\* str(q) as an f-string prints it: an int in decimal; a float strictly
\* between -1 and 0 with an odd numerator as "-0." and its exact decimal
\* fraction |num| * 5^n / 10^n, n = log2 of the denominator.
NumStr(q) ==
    IF q[2] = 1 THEN IntStr(q[1])
    ELSE LET n == Log2(q[2])
             a == IF q[1] < 0 THEN 0 - q[1] ELSE q[1]
         IN  (IF q[1] < 0 THEN <<"-">> ELSE <<>>) \o <<"0", ".">>
                 \o ZeroPad(NatStr(a * Pow(5, n)), n)

\* The binary digits of a non-negative int, most significant first.
RECURSIVE BinStr(_)
BinStr(n) == IF n < 2 THEN <<Digits[n + 1]>>
             ELSE BinStr(n \div 2) \o <<Digits[(n % 2) + 1]>>

\* format(address, f"0{bits}b"): sign, then binary digits zero-padded to a
\* total width of bits.  A negative bits makes the format spec "0-3b",
\* which format() rejects with ValueError ({}).
FormatBin(address, bits) ==
    IF bits < 0 THEN {}
    ELSE IF address < 0
         THEN {<<"-">> \o ZeroPad(BinStr(0 - address), bits - 1)}
         ELSE {ZeroPad(BinStr(address), bits)}

(***************************************************************************)
(* DIP image generator.  An image is its size and the list of draw calls   *)
(* made on it, in order; the canvas starts white.                          *)
(***************************************************************************)
switch_width == 32
switch_height == 80
spacing == 6
margin == 20
dip_top == 50

dip_bottom == dip_top + switch_height

Rectangle(box, fill, outline, width) ==
    [op |-> "rectangle", box |-> box, fill |-> fill, outline |-> outline,
     width |-> width, text |-> <<>>]

DrawText(x, y, text, fill) ==
    [op |-> "text", box |-> <<x, y, x, y>>, fill |-> fill, outline |-> "",
     width |-> 0, text |-> text]

total_width(num_switches) ==
    num_switches * (switch_width + spacing) + margin * 2 - spacing

total_height == switch_height + 80

panel_rect(num_switches) ==
    <<margin - 10, dip_top - 30, total_width(num_switches) - margin + 10, dip_bottom + 30>>

\* x of the slot at 0-based position i
SlotX(i) == margin + i * (switch_width + 6)

\* SlotHalves with the bit compared to the int 1, which no character equals.
SlotHalvesIntCompare(x, y, bit) ==
    LET upper == <<x + 2, y + 2, x + switch_width - 2, y + (switch_height \div 2)>>
        lower == <<x + 2, y + (switch_height \div 2), x + switch_width - 2, y + switch_height - 2>>
    IN  <<Rectangle(lower, "white", "", 0), Rectangle(upper, "#cc0000", "", 0)>>

\* The two half rectangles of a slot: white is the actuated colour.
SlotHalves(x, y, bit) ==
    LET upper == <<x + 2, y + 2, x + switch_width - 2, y + (switch_height \div 2)>>
        lower == <<x + 2, y + (switch_height \div 2), x + switch_width - 2, y + switch_height - 2>>
    IN  IF bit = "1"
        THEN <<Rectangle(upper, "white", "", 0), Rectangle(lower, "#cc0000", "", 0)>>
        ELSE <<Rectangle(lower, "white", "", 0), Rectangle(upper, "#cc0000", "", 0)>>

\* SlotOps that writes the position above the frame.
SlotOpsLabelAbove(i, bit) ==
    LET x == SlotX(i)
        y == dip_top
    IN  <<Rectangle(<<x, y, x + switch_width, y + switch_height>>, "", "black", 2)>>
        \o SlotHalves(x, y, bit)
        \o <<DrawText(x + (switch_width \div 2) - 5, y - 25, IntStr(i + 1), "white")>>

\* One iteration of the loop over enumerate(binary_str), i 0-based.
SlotOps(i, bit) ==
    LET x == SlotX(i)
        y == dip_top
    IN  <<Rectangle(<<x, y, x + switch_width, y + switch_height>>, "", "black", 2)>>
        \o SlotHalves(x, y, bit)
        \o <<DrawText(x + (switch_width \div 2) - 5, y + switch_height + 5, IntStr(i + 1), "white")>>

\* The draw calls of the first k iterations.
RECURSIVE LoopOps(_, _)
LoopOps(binary_str, k) ==
    IF k = 0 THEN <<>>
    ELSE LoopOps(binary_str, k - 1) \o SlotOps(k - 1, binary_str[k])

generate_dip_image(binary_str) ==
    LET num_switches == Len(binary_str)
    IN  [size |-> <<total_width(num_switches), total_height>>,
         ops  |-> <<Rectangle(panel_rect(num_switches), "#cc0000", "black", 2),
                    DrawText(margin, dip_top - 25, <<"O", "N">>, "white")>>
                  \o LoopOps(binary_str, num_switches)]

(***************************************************************************)
(* Texts and keyboards.  A text is the identity of its literal, the        *)
(* languages the literal is written in, and the values an f-string put     *)
(* into it, each as the string str() gives.                                *)
(***************************************************************************)
UA == <<"u", "a">>
CZ == <<"c", "z">>

Txt(id, langs, args) == [id |-> id, langs |-> langs, args |-> args]

LANG_TEXTS ==
    [l \in {UA, CZ} |->
        [choose_bits |-> Txt("choose_bits", {l}, <<>>),
         send_number |-> Txt("send_number", {l}, <<>>)]]

Button(label, callback_data) == [label |-> label, callback_data |-> callback_data]

LangPayload(code) == <<"l", "a", "n", "g", "_">> \o code
BitsPayload(n) == <<"b", "i", "t", "s", "_">> \o n

LanguageKeyboard ==
    <<Button("Ukrainska", LangPayload(UA)), Button("Cestina", LangPayload(CZ))>>

BitsKeyboard ==
    <<Button("6", BitsPayload(<<"6">>)), Button("8", BitsPayload(<<"8">>)),
      Button("10", BitsPayload(<<"1", "0">>)), Button("12", BitsPayload(<<"1", "2">>))>>

ChooseLanguageText == Txt("choose_language", {UA, CZ}, <<>>)
NegativeText == Txt("negative", {UA, CZ}, <<>>)
TooBigText(bits, max_value) == Txt("too_big", {UA}, <<IntStr(bits), NumStr(max_value)>>)
InvalidText == Txt("invalid", {UA, CZ}, <<>>)

(***************************************************************************)
(* Calls on the response sink.  text and photo hold at most one element.   *)
(***************************************************************************)
Answer == [method |-> "answer", text |-> {}, markup |-> <<>>, photo |-> {}]
ReplyText(text, markup) ==
    [method |-> "reply_text", text |-> {text}, markup |-> markup, photo |-> {}]
EditMessageText(text, markup) ==
    [method |-> "edit_message_text", text |-> {text}, markup |-> markup, photo |-> {}]
ReplyPhoto(image) ==
    [method |-> "reply_photo", text |-> {}, markup |-> <<>>, photo |-> {image}]

(***************************************************************************)
(* Handlers.  user_data is [lang, bits], each a set holding the value of   *)
(* the key when the key is present.  A handler gives the user_data it      *)
(* leaves, the calls it made and the exception that left it ("" if none).  *)
(***************************************************************************)
NoData == [lang |-> {}, bits |-> {}]

Result(ud, out, raised) == [ud |-> ud, out |-> out, raised |-> raised]

\* context.user_data.get("lang", "ua")
GetLang(ud) == IF ud.lang = {} THEN UA ELSE The(ud.lang)

\* context.user_data.get("bits", 8)
\* context.user_data.get("bits", 6): another width when none is recorded.
GetBitsDefault6(ud) == IF ud.bits = {} THEN 6 ELSE The(ud.bits)

GetBits(ud) == IF ud.bits = {} THEN 8 ELSE The(ud.bits)

\* show_bit_options that ignores edit and always sends a new message.
show_bit_options_reply_only(ud, edit) ==
    LET lang == GetLang(ud)
    IN  IF lang \notin DOMAIN LANG_TEXTS THEN Result(ud, <<>>, "KeyError")
        ELSE Result(ud, <<ReplyText(LANG_TEXTS[lang].choose_bits, BitsKeyboard)>>, "")

show_bit_options(ud, edit) ==
    LET lang == GetLang(ud)
    IN  IF lang \notin DOMAIN LANG_TEXTS THEN Result(ud, <<>>, "KeyError")
        ELSE LET text == LANG_TEXTS[lang].choose_bits
             IN  IF edit THEN Result(ud, <<EditMessageText(text, BitsKeyboard)>>, "")
                 ELSE Result(ud, <<ReplyText(text, BitsKeyboard)>>, "")

\* start that sends the user back to choose a width again.
start_clears_bits(ud) ==
    IF ud.lang # {}
    THEN LET r == show_bit_options(ud, FALSE)
         IN  Result([ud EXCEPT !.bits = {}], r.out, r.raised)
    ELSE Result(ud, <<ReplyText(ChooseLanguageText, LanguageKeyboard)>>, "")

start(ud) ==
    IF ud.lang # {} THEN show_bit_options(ud, FALSE)
    ELSE Result(ud, <<ReplyText(ChooseLanguageText, LanguageKeyboard)>>, "")

\* language_selected that builds the session anew around the language.
language_selected_fresh(ud, data) ==
    IF Len(Split(data, "_")) < 2 THEN Result(ud, <<Answer>>, "IndexError")
    ELSE LET ud2 == [lang |-> {Split(data, "_")[2]}, bits |-> {}]
             r   == show_bit_options(ud2, TRUE)
         IN  Result(ud2, <<Answer>> \o r.out, r.raised)

\* What language_selected stores under "lang".
SelectedLang(data) == Split(data, "_")[2]

language_selected(ud, data) ==
    IF Len(Split(data, "_")) < 2 THEN Result(ud, <<Answer>>, "IndexError")
    ELSE LET ud2 == [ud EXCEPT !.lang = {SelectedLang(data)}]
             r   == show_bit_options(ud2, TRUE)
         IN  Result(ud2, <<Answer>> \o r.out, r.raised)

\* int(query.data.split("_")[1]); {} is ValueError.
SelectedBits(data) == PyInt(Split(data, "_")[2])

bits_selected(ud, data) ==
    IF Len(Split(data, "_")) < 2 THEN Result(ud, <<Answer>>, "IndexError")
    ELSE IF SelectedBits(data) = {} THEN Result(ud, <<Answer>>, "ValueError")
    ELSE LET bits == The(SelectedBits(data))
             ud2  == [ud EXCEPT !.bits = {bits}]
             lang == GetLang(ud2)
             max_value == MaxValueOf(bits)
         IN  IF lang \notin DOMAIN LANG_TEXTS THEN Result(ud2, <<Answer>>, "KeyError")
             ELSE LET t == LANG_TEXTS[lang].send_number
                      text == Txt(t.id, t.langs, <<NumStr(max_value)>>)
                  IN  Result(ud2, <<Answer, EditMessageText(text, <<>>)>>, "")

\* BinaryOf without the reversal.
BinaryOfUnreversed(address, bits) == The(FormatBin(address, bits))

\* The string handed to the renderer: format(), then [::-1].
BinaryOf(address, bits) == Reverse(The(FormatBin(address, bits)))

\* HandleNumberExcept that also clears the session.
HandleNumberExceptReset(ud) == Result(NoData, <<ReplyText(InvalidText, <<>>)>>, "")

\* The bare except of handle_number.
HandleNumberExcept(ud) == Result(ud, <<ReplyText(InvalidText, <<>>)>>, "")

handle_number(ud, text) ==
    IF PyInt(Strip(text)) = {} THEN HandleNumberExcept(ud)
    ELSE LET address == The(PyInt(Strip(text)))
             bits == GetBits(ud)
             max_value == MaxValueOf(bits)
         IN  IF address < 0 THEN Result(ud, <<ReplyText(NegativeText, <<>>)>>, "")
             ELSE IF Exceeds(address, max_value)
                  THEN Result(ud, <<ReplyText(TooBigText(bits, max_value), <<>>)>>, "")
             ELSE IF FormatBin(address, bits) = {} THEN HandleNumberExcept(ud)
             ELSE Result(ud, <<ReplyPhoto(generate_dip_image(BinaryOf(address, bits)))>>, "")

(***************************************************************************)
(* handle_number when calls it makes fail.  F names the calls that raise:  *)
(*   "render"  generate_dip_image (line 166)                               *)
(*   "save"    image.save (line 169)                                       *)
(*   "send"    the send inside the try: reply_text (lines 159, 162) or     *)
(*             reply_photo (line 171)                                      *)
(*   "report"  reply_text in the except clause (line 173)                  *)
(* A call that raises shows the user nothing.                              *)
(***************************************************************************)
FaultPoints == {"render", "save", "send", "report"}

\* The except clause: it catches whatever the try raised, and what its own
\* reply_text raises leaves the handler.
ExceptClause(ud, F, error) ==
    IF "report" \in F THEN Result(ud, <<>>, "TelegramError")
    ELSE HandleNumberExcept(ud)

handle_number_with(ud, text, F) ==
    IF PyInt(Strip(text)) = {} THEN ExceptClause(ud, F, "ValueError")
    ELSE LET address == The(PyInt(Strip(text)))
             bits == GetBits(ud)
             max_value == MaxValueOf(bits)
         IN  IF address < 0
             THEN IF "send" \in F THEN ExceptClause(ud, F, "TelegramError")
                  ELSE Result(ud, <<ReplyText(NegativeText, <<>>)>>, "")
             ELSE IF Exceeds(address, max_value)
             THEN IF "send" \in F THEN ExceptClause(ud, F, "TelegramError")
                  ELSE Result(ud, <<ReplyText(TooBigText(bits, max_value), <<>>)>>, "")
             ELSE IF FormatBin(address, bits) = {} THEN ExceptClause(ud, F, "ValueError")
             ELSE IF "render" \in F THEN ExceptClause(ud, F, "Exception")
             ELSE IF "save" \in F THEN ExceptClause(ud, F, "OSError")
             ELSE IF "send" \in F THEN ExceptClause(ud, F, "TelegramError")
             ELSE Result(ud, <<ReplyPhoto(generate_dip_image(BinaryOf(address, bits)))>>, "")

(***************************************************************************)
(* Routing, as main() registers the handlers.                              *)
(***************************************************************************)
\* re.match(pattern, data) for a pattern "^" followed by literal characters
HasPrefix(data, prefix) ==
    Len(data) >= Len(prefix) /\ Slice(data, 1, Len(prefix)) = prefix

MatchesLang(data) == HasPrefix(data, <<"l", "a", "n", "g", "_">>)
MatchesBits(data) == HasPrefix(data, <<"b", "i", "t", "s", "_">>)

\* A character a bot command may be made of.
IsCommandChar(c) ==
    \/ IsDigit(c)
    \/ c = "_"
    \/ c \in {"a", "b", "c", "d", "e", "f", "g", "h", "i", "j", "k", "l", "m",
              "n", "o", "p", "q", "r", "s", "t", "u", "v", "w", "x", "y", "z"}

\* filters.COMMAND that takes no message for a command.
IsCommandNever(text) == FALSE

\* filters.COMMAND: the message starts with a bot command.
IsCommand(text) == Len(text) >= 2 /\ text[1] = "/" /\ IsCommandChar(text[2])

\* CommandHandler("start"): the command is /start.
IsStartCommand(text) == IsCommand(text) /\ Split(text, " ")[1] = <<"/", "s", "t", "a", "r", "t">>

(***************************************************************************)
(* State.                                                                  *)
(***************************************************************************)
VARIABLES
    user_data,  \* user -> that user's context.user_data
    last,       \* the event handled last, what its handler did, and the
                \* calls that failed while it ran
    app,        \* main(): where it is, the token it read, the handlers added
    tasks       \* the handler coroutines suspended at an await

vars == <<user_data, last, app, tasks>>

\* The kind of update a handler is registered for (lines 190-193).
KindOf(handler) ==
    CASE handler \in {"language_selected", "bits_selected"} -> "callback_query"
      [] handler \in {"start", "handle_number"} -> "message"
      [] OTHER -> "none"

Event(handler, user, data, r) ==
    [handler |-> handler, kind |-> KindOf(handler), user |-> user, data |-> data,
     out |-> r.out, raised |-> r.raised, faults |-> {}]

\* The handlers main() adds, in its order.
AllHandlers == <<"start", "language_selected", "bits_selected", "handle_number">>

\* main() inside run_polling, with a token and every handler added.
Polling == [pc |-> "run_polling", token |-> {<<"t">>}, handlers |-> AllHandlers]

NoEvent == Event("none", 0, <<>>, Result(NoData, <<>>, ""))

\* The bot once main() has reached run_polling: no session, no event yet.
Init ==
    /\ user_data = [u \in Users |-> NoData]
    /\ last = NoEvent
    /\ app = Polling
    /\ tasks = {}

\* Handle with one session shared by every user.
HandleShared(handler, u, data, r) ==
    /\ user_data' = [o \in Users |-> r.ud]
    /\ last' = Event(handler, u, data, r)
    /\ UNCHANGED <<app, tasks>>

\* An update handled from start to end with no other update in between, as
\* the Application does with its default of one update at a time.
Handle(handler, u, data, r) ==
    /\ user_data' = [user_data EXCEPT ![u] = r.ud]
    /\ last' = Event(handler, u, data, r)
    /\ UNCHANGED <<app, tasks>>

Start(u, text) ==
    /\ IsStartCommand(text)
    /\ Handle("start", u, text, start(user_data[u]))

LanguageSelected(u, data) ==
    /\ MatchesLang(data)
    /\ Handle("language_selected", u, data, language_selected(user_data[u], data))

BitsSelected(u, data) ==
    /\ ~MatchesLang(data)
    /\ MatchesBits(data)
    /\ Handle("bits_selected", u, data, bits_selected(user_data[u], data))

HandleNumber(u, text) ==
    /\ Len(text) > 0
    /\ ~IsCommand(text)
    /\ Handle("handle_number", u, text, handle_number(user_data[u], text))

\* An address event during which the calls named by F fail.
HandleNumberWith(u, text, F) ==
    /\ Len(text) > 0
    /\ ~IsCommand(text)
    /\ LET r == handle_number_with(user_data[u], text, F)
       IN  /\ user_data' = [user_data EXCEPT ![u] = r.ud]
           /\ last' = [Event("handle_number", u, text, r) EXCEPT !.faults = F]
           /\ UNCHANGED <<app, tasks>>

(***************************************************************************)
(* Events the model delivers.                                              *)
(***************************************************************************)
StartText == <<"/", "s", "t", "a", "r", "t">>

\* Button payloads: buttons of the two keyboards, and payloads a client can
\* send that no keyboard carries.
Payloads ==
    {LangPayload(UA), LangPayload(CZ), LangPayload(<<"x", "x">>),
     BitsPayload(<<"6">>), BitsPayload(<<"1", "2">>), BitsPayload(<<"7">>),
     BitsPayload(<<"x">>)}

\* Message texts.
Texts == {<<"5">>, <<"6", "4">>, <<"-", "1">>, <<"a", "b", "c">>}

Next ==
    \E u \in Users :
        \/ Start(u, StartText)
        \/ \E data \in Payloads : LanguageSelected(u, data)
        \/ \E data \in Payloads : BitsSelected(u, data)
        \/ \E text \in Texts : HandleNumber(u, text)

Spec == Init /\ [][Next]_vars

(***************************************************************************)
(* SpecAddress: one user picks a bit width, or none, and sends one         *)
(* message, drawn from every address up to MaxAddress and from texts that  *)
(* exercise int().                                                         *)
(***************************************************************************)
MaxAddress == 4096

\* Every width button, and bits_ payloads no keyboard carries.
WidthPayloads ==
    {BitsPayload(<<"6">>), BitsPayload(<<"8">>), BitsPayload(<<"1", "0">>),
     BitsPayload(<<"1", "2">>), BitsPayload(<<"7">>), BitsPayload(<<"0">>),
     BitsPayload(<<"-", "1">>), BitsPayload(<<"x">>)}

OddTexts ==
    {<<"a", "b", "c">>, <<"5", ".", "0">>, <<"-">>, <<"1", "2", "a">>, <<"0", "x", "1", "0">>,
     <<" ", "7", " ">>, <<"+", "3">>, <<"1", "_", "0">>, <<"1", "_", "_", "0">>, <<"_", "1">>,
     <<"0", "0", "5">>, <<"-", "0">>, <<"-", "7">>, <<"1", " ", "2">>}

AddressTexts == {IntStr(v) : v \in (0 - 1)..MaxAddress} \cup OddTexts

NextAddress ==
    \/ /\ last.handler = "none"
       /\ \E data \in WidthPayloads : BitsSelected(1, data)
    \/ /\ last.handler # "handle_number"
       /\ \E text \in AddressTexts : HandleNumber(1, text)

SpecAddress == Init /\ [][NextAddress]_vars

(***************************************************************************)
(* SpecFault: one user, and address events during which any of the calls   *)
(* of handle_number may fail.                                              *)
(***************************************************************************)
NextFault ==
    \/ \E data \in Payloads : LanguageSelected(1, data)
    \/ \E data \in Payloads : BitsSelected(1, data)
    \/ \E text \in Texts : \E F \in SUBSET FaultPoints : HandleNumberWith(1, text, F)

SpecFault == Init /\ [][NextFault]_vars

(***************************************************************************)
(* SpecAsync: the updates of one user handled concurrently.  A handler     *)
(* runs without interruption from one await to the next, and other         *)
(* handlers run while it is suspended:                                     *)
(*   start, handle_number   suspend once, in the send of their reply       *)
(*                          (lines 98, 133, 159, 162, 171, 173);           *)
(*   language_selected,     suspend in query.answer() (lines 107, 141),    *)
(*   bits_selected          then read and write the session and suspend    *)
(*                          in edit_message_text (lines 131, 147).         *)
(* Suspended coroutines that agree in everything are kept once.            *)
(***************************************************************************)
MaxTasks == 2

\* Payloads and texts of the concurrent updates.
AsyncPayloads ==
    {LangPayload(UA), LangPayload(CZ), BitsPayload(<<"6">>), BitsPayload(<<"1", "2">>)}

AsyncTexts == {<<"5">>, <<"6", "4">>}

\* The handler main() routes an update to.
Routed(handler, data) ==
    CASE handler = "start" -> IsStartCommand(data)
      [] handler = "language_selected" -> MatchesLang(data)
      [] handler = "bits_selected" -> ~MatchesLang(data) /\ MatchesBits(data)
      [] handler = "handle_number" -> Len(data) > 0 /\ ~IsCommand(data)

\* A handler run from its last await (or its entry) to its next one.
RunFrom(handler, ud, data) ==
    CASE handler = "start" -> start(ud)
      [] handler = "language_selected" -> language_selected(ud, data)
      [] handler = "bits_selected" -> bits_selected(ud, data)
      [] handler = "handle_number" -> handle_number(ud, data)

\* A suspended coroutine: the await it is in, the local bits of
\* handle_number (line 156), and the calls it has made, the one it is
\* suspended in last.
Task(pc, handler, u, data, bits, out) ==
    [pc |-> pc, handler |-> handler, user |-> u, data |-> data, bits |-> bits, out |-> out]

\* An update arrives and its handler runs to its first await.
Begin(u, handler, data) ==
    /\ Cardinality(tasks) < MaxTasks
    /\ Routed(handler, data)
    /\ UNCHANGED <<user_data, app>>
    /\ IF handler \in {"language_selected", "bits_selected"}
       THEN /\ tasks' = tasks \cup {Task("answer", handler, u, data, {}, <<Answer>>)}
            /\ UNCHANGED last
       ELSE LET r == RunFrom(handler, user_data[u], data)
                bits == IF handler = "handle_number" THEN {GetBits(user_data[u])} ELSE {}
            IN  IF r.raised # ""
                THEN last' = Event(handler, u, data, r) /\ UNCHANGED tasks
                ELSE /\ tasks' = tasks \cup {Task("send", handler, u, data, bits, r.out)}
                     /\ UNCHANGED last

\* query.answer() returns: the handler reads and writes the session as it
\* is now, and suspends in edit_message_text.
AfterAnswer(t) ==
    /\ t \in tasks
    /\ t.pc = "answer"
    /\ UNCHANGED app
    /\ LET r == RunFrom(t.handler, user_data[t.user], t.data)
       IN  /\ user_data' = [user_data EXCEPT ![t.user] = r.ud]
           /\ IF r.raised # ""
              THEN /\ last' = Event(t.handler, t.user, t.data, r)
                   /\ tasks' = tasks \ {t}
              ELSE /\ tasks' = (tasks \ {t}) \cup {[t EXCEPT !.pc = "send", !.out = r.out]}
                   /\ UNCHANGED last

\* The send returns and the handler ends.
Finish(t) ==
    /\ t \in tasks
    /\ t.pc = "send"
    /\ last' = Event(t.handler, t.user, t.data, Result(user_data[t.user], t.out, ""))
    /\ tasks' = tasks \ {t}
    /\ UNCHANGED <<user_data, app>>

NextAsync ==
    \/ Begin(1, "start", StartText)
    \/ \E data \in AsyncPayloads : Begin(1, "language_selected", data)
    \/ \E data \in AsyncPayloads : Begin(1, "bits_selected", data)
    \/ \E text \in AsyncTexts : Begin(1, "handle_number", text)
    \/ \E t \in tasks : AfterAnswer(t)
    \/ \E t \in tasks : Finish(t)

SpecAsync == Init /\ [][NextAsync]_vars

(***************************************************************************)
(* SpecUsers: the events of every user in any order, each event handled    *)
(* before the next one arrives, with the payloads the bot's own buttons    *)
(* carry.                                                                  *)
(***************************************************************************)
NextUsers ==
    \E u \in Users :
        \/ Start(u, StartText)
        \/ \E data \in AsyncPayloads : LanguageSelected(u, data)
        \/ \E data \in AsyncPayloads : BitsSelected(u, data)
        \/ \E text \in AsyncTexts : HandleNumber(u, text)

SpecUsers == Init /\ [][NextUsers]_vars

(***************************************************************************)
(* SpecMain: the process from its start.  app.token is TELEGRAM_TOKEN in   *)
(* the environment: absent, the empty string, or a token.                  *)
(***************************************************************************)
Tokens == {{}, {<<>>}, {<<"t">>}}

\* "not TOKEN" that takes only None for a missing token.
TokenMissingNoneOnly(token) == token = {}

\* "not TOKEN" (line 183): None and the empty string.
TokenMissing(token) == token = {} \/ token = {<<>>}

InitMain ==
    /\ user_data = [u \in Users |-> NoData]
    /\ last = NoEvent
    /\ tasks = {}
    /\ \E token \in Tokens : app = [pc |-> "getenv", token |-> token, handlers |-> <<>>]

\* TOKEN = os.getenv("TELEGRAM_TOKEN") (line 182).
Getenv ==
    /\ app.pc = "getenv"
    /\ app' = [app EXCEPT !.pc = "check"]
    /\ UNCHANGED <<user_data, last, tasks>>

\* if not TOKEN: raise ValueError(...) (lines 183-184).
CheckToken ==
    /\ app.pc = "check"
    /\ app' = [app EXCEPT !.pc = IF TokenMissing(app.token) THEN "failed" ELSE "build"]
    /\ UNCHANGED <<user_data, last, tasks>>

\* ApplicationBuilder().token(TOKEN).build() (line 187).
Build ==
    /\ app.pc = "build"
    /\ app' = [app EXCEPT !.pc = "add_handler"]
    /\ UNCHANGED <<user_data, last, tasks>>

\* The four add_handler calls in their order (lines 190-193).
AddHandler ==
    /\ app.pc = "add_handler"
    /\ Len(app.handlers) < Len(AllHandlers)
    /\ app' = [app EXCEPT !.handlers = Append(@, AllHandlers[Len(@) + 1])]
    /\ UNCHANGED <<user_data, last, tasks>>

\* app.run_polling() (line 196).
RunPolling ==
    /\ app.pc = "add_handler"
    /\ Len(app.handlers) = Len(AllHandlers)
    /\ app' = [app EXCEPT !.pc = "run_polling"]
    /\ UNCHANGED <<user_data, last, tasks>>

\* An update is served by a registered handler once polling runs.
Serve(handler, u, data) ==
    /\ app.pc = "run_polling"
    /\ \E i \in 1..Len(app.handlers) : app.handlers[i] = handler
    /\ Routed(handler, data)
    /\ Handle(handler, u, data, RunFrom(handler, user_data[u], data))

NextMain ==
    \/ Getenv
    \/ CheckToken
    \/ Build
    \/ AddHandler
    \/ RunPolling
    \/ Serve("start", 1, StartText)
    \/ \E data \in Payloads : Serve("language_selected", 1, data)
    \/ \E data \in Payloads : Serve("bits_selected", 1, data)
    \/ \E text \in Texts : Serve("handle_number", 1, text)

SpecMain == InitMain /\ [][NextMain]_vars

(***************************************************************************)
(* SpecRouting: updates of either kind with any content, given to the      *)
(* first handler added whose filter accepts them, or to none.              *)
(***************************************************************************)
CallbackData ==
    Payloads \cup
    { <<"o", "t", "h", "e", "r">>,
      <<"x", "l", "a", "n", "g", "_", "u", "a">>,
      <<"b", "i", "t", "s">>,
      <<"L", "a", "n", "g", "_", "u", "a">>,
      <<"5">> }

MessageTexts ==
    Texts \cup
    { StartText,
      <<"/", "h", "e", "l", "p">>,
      <<"/", "5">>,
      <<"/", "s", "t", "a", "r", "t", "x">>,
      <<"/", " ", "5">>,
      <<"2", "5", "5">>,
      <<"2", "5", "6">>,
      <<"l", "a", "n", "g", "_", "u", "a">>,
      <<"b", "i", "t", "s", "_", "6">> }

\* The handler an update is given to: the first one added whose filter
\* accepts it (lines 190-193), "none" when no filter does.
Dispatch(kind, data) ==
    IF kind = "message"
    THEN IF IsStartCommand(data) THEN "start"
         ELSE IF Len(data) > 0 /\ ~IsCommand(data) THEN "handle_number"
         ELSE "none"
    ELSE IF MatchesLang(data) THEN "language_selected"
         ELSE IF MatchesBits(data) THEN "bits_selected"
         ELSE "none"

\* An update arrives and is dispatched.
Update(u, kind, data) ==
    LET handler == Dispatch(kind, data)
    IN  IF handler = "none"
        THEN /\ last' = [Event("none", u, data, Result(user_data[u], <<>>, ""))
                            EXCEPT !.kind = kind]
             /\ UNCHANGED <<user_data, app, tasks>>
        ELSE /\ user_data' = [user_data EXCEPT ![u] = RunFrom(handler, user_data[u], data).ud]
             /\ last' = Event(handler, u, data, RunFrom(handler, user_data[u], data))
             /\ UNCHANGED <<app, tasks>>

NextRouting ==
    \/ \E data \in CallbackData : Update(1, "callback_query", data)
    \/ \E text \in MessageTexts : Update(1, "message", text)

SpecRouting == Init /\ [][NextRouting]_vars

(***************************************************************************)
(* SpecGeometry: pictures of every number of slots from 1 to MaxSwitches,  *)
(* each drawn for an address sent after a press that records that width.   *)
(***************************************************************************)
MaxSwitches == 12

GeometryTexts ==
    { <<"0">>, <<"1">>, <<"2">>, <<"5">>, <<"6", "3">>, <<"2", "5", "5">>,
      <<"1", "0", "2", "3">>, <<"4", "0", "9", "5">> }

NextGeometry ==
    \/ \E n \in 1..MaxSwitches : BitsSelected(1, BitsPayload(NatStr(n)))
    \/ \E text \in GeometryTexts : HandleNumber(1, text)

SpecGeometry == Init /\ [][NextGeometry]_vars

(***************************************************************************)
(* Reading a state: the session of the event handled last, and what the    *)
(* user was sent.                                                          *)
(***************************************************************************)
LastData == IF last.user \in Users THEN user_data[last.user] ELSE NoData

\* The calls that show the user something.
Shown == SelectSeq(last.out, LAMBDA c : c.method # "answer")

\* The one text shown, as a new message or as an edit.
ShownText(method, text, markup) ==
    Shown = <<[method |-> method, text |-> {text}, markup |-> markup, photo |-> {}]>>

\* The four bit-width options, as the buttons carry them.
FourWidths ==
    <<<<"b", "i", "t", "s", "_", "6">>, <<"b", "i", "t", "s", "_", "8">>,
      <<"b", "i", "t", "s", "_", "1", "0">>, <<"b", "i", "t", "s", "_", "1", "2">>>>

\* The two language options, as the buttons carry them.
TwoLanguages == <<<<"l", "a", "n", "g", "_", "u", "a">>, <<"l", "a", "n", "g", "_", "c", "z">>>>

PayloadsOf(markup) == [i \in 1..Len(markup) |-> markup[i].callback_data]

\* The language-selection prompt: a new message with the two options.
ShowsLanguagePrompt ==
    /\ Len(Shown) = 1
    /\ Shown[1].method = "reply_text"
    /\ \E t \in Shown[1].text : t.id = "choose_language"
    /\ PayloadsOf(Shown[1].markup) = TwoLanguages

\* The bit-width prompt in language l, sent by the given method.
ShowsBitOptions(method, l) ==
    /\ Len(Shown) = 1
    /\ Shown[1].method = method
    /\ Shown[1].text = {[id |-> "choose_bits", langs |-> {l}, args |-> <<>>]}
    /\ PayloadsOf(Shown[1].markup) = FourWidths

\* C1: after /start, a session without a language is shown the language
\* prompt with the two options, and a session with a recorded language is
\* shown the bit-width options as a new message and not the language prompt.
C1_StartPrompt ==
    last.handler = "start" =>
        IF LastData.lang = {}
        THEN ShowsLanguagePrompt
        ELSE /\ \E l \in {UA, CZ} : ShowsBitOptions("reply_text", l)
             /\ ~ShowsLanguagePrompt

\* C2: a press of lang_ua or lang_cz records that language and edits the
\* pressed message into the bit-width options in that language; no new
\* message is sent.
C2_LanguageChoice ==
    \A c \in {<<"u", "a">>, <<"c", "z">>} :
        (last.handler = "language_selected"
            /\ last.data = <<"l", "a", "n", "g", "_">> \o c) =>
            /\ LastData.lang = {c}
            /\ ShowsBitOptions("edit_message_text", c)
            /\ \A i \in 1..Len(last.out) : last.out[i].method # "reply_text"
            /\ last.raised = ""

C2_Witness ==
    /\ last.handler = "language_selected"
    /\ last.data = <<"l", "a", "n", "g", "_", "c", "z">>
    /\ LastData.lang = {CZ}
    /\ ShowsBitOptions("edit_message_text", CZ)

\* The widths of the keyboard with the maximum each one's prompt names.
WidthMax ==
    {<<6, <<"6">>, <<"6", "3">>>>, <<8, <<"8">>, <<"2", "5", "5">>>>,
     <<10, <<"1", "0">>, <<"1", "0", "2", "3">>>>,
     <<12, <<"1", "2">>, <<"4", "0", "9", "5">>>>}

\* C3: a press of bits_w, w in {6, 8, 10, 12}, records w and edits the
\* pressed message into the instruction in the session's language
\* (Ukrainian when none is recorded), naming the maximum 2^w - 1.
C3_BitsChoice ==
    \A wm \in WidthMax :
        (last.handler = "bits_selected"
            /\ last.data = <<"b", "i", "t", "s", "_">> \o wm[2]) =>
            /\ LastData.bits = {wm[1]}
            /\ ShownText("edit_message_text",
                   [id |-> "send_number",
                    langs |-> IF LastData.lang = {} THEN {UA} ELSE LastData.lang,
                    args |-> <<wm[3]>>],
                   <<>>)

(***************************************************************************)
(* Reading an address event and the picture it sent.                       *)
(***************************************************************************)
\* The width an address event works with: the recorded one, else 8 (line 156).
LastWidth == IF LastData.bits = {} THEN 8 ELSE The(LastData.bits)

\* One new text message with the given literal and no buttons.
ShowsError(id) ==
    /\ Len(Shown) = 1
    /\ Shown[1].method = "reply_text"
    /\ Shown[1].photo = {}
    /\ \E t \in Shown[1].text : t.id = id

\* One picture and nothing else.
ShowsPhoto ==
    /\ Len(Shown) = 1
    /\ Shown[1].method = "reply_photo"
    /\ Shown[1].text = {}
    /\ Cardinality(Shown[1].photo) = 1

NoPhoto == \A i \in 1..Len(last.out) : last.out[i].photo = {}

LastImage == The(Shown[1].photo)

\* v is above 2^w - 1; for w < 0 that maximum lies between -1 and 0.
AboveMax(v, w) == IF w >= 0 THEN v > 2^w - 1 ELSE v >= 0

\* Bit k of v, counted from the least significant bit.
BitOf(v, k) == (v \div 2^k) % 2

\* The colour a draw call leaves at a pixel, "" if it leaves the pixel alone.
\* Boxes include their corners; an outline lies inside the box.
Painted(o, px, py) ==
    IF o.op # "rectangle" THEN ""
    ELSE IF px < o.box[1] \/ px > o.box[3] \/ py < o.box[2] \/ py > o.box[4] THEN ""
    ELSE IF /\ o.outline # ""
            /\ \/ px < o.box[1] + o.width
               \/ px > o.box[3] - o.width
               \/ py < o.box[2] + o.width
               \/ py > o.box[4] - o.width
         THEN o.outline
    ELSE o.fill

\* The colour of a pixel of the finished image.
PixelAt(img, px, py) ==
    LET hits == {k \in 1..Len(img.ops) : Painted(img.ops[k], px, py) # ""}
    IN  IF hits = {} THEN "white"
        ELSE Painted(img.ops[CHOOSE k \in hits : \A j \in hits : j <= k], px, py)

\* The slot frames of an image, in drawing order.
Frames(img) ==
    SelectSeq(img.ops, LAMBDA o : o.op = "rectangle" /\ o.fill = "" /\ o.outline = "black")

\* The position labels of an image, in drawing order.
Labels(img) == SelectSeq(img.ops, LAMBDA o : o.op = "text" /\ o.text # <<"O", "N">>)

\* The colours in the middle of the upper and of the lower half of a frame.
UpperColour(img, f) ==
    PixelAt(img, (f.box[1] + f.box[3]) \div 2, f.box[2] + (f.box[4] - f.box[2]) \div 4)
LowerColour(img, f) ==
    PixelAt(img, (f.box[1] + f.box[3]) \div 2, f.box[2] + (3 * (f.box[4] - f.box[2])) \div 4)

SlotOn(img, f) == UpperColour(img, f) = "white" /\ LowerColour(img, f) = "#cc0000"
SlotOff(img, f) == UpperColour(img, f) = "#cc0000" /\ LowerColour(img, f) = "white"

\* The label strings of positions 1..12.
LabelText ==
    <<<<"1">>, <<"2">>, <<"3">>, <<"4">>, <<"5">>, <<"6">>, <<"7">>, <<"8">>, <<"9">>,
      <<"1", "0">>, <<"1", "1">>, <<"1", "2">>>>

\* The number the slots of an image spell, slot 1 least significant.
RECURSIVE DecodeSlots(_, _)
DecodeSlots(img, k) ==
    IF k = 0 THEN 0
    ELSE DecodeSlots(img, k - 1) + (IF SlotOn(img, Frames(img)[k]) THEN 2^(k - 1) ELSE 0)

\* Each allowed width with the decimal strings of w, 2^w - 1 and 2^w.
WidthEdge ==
    {<<6, <<"6">>, <<"6", "3">>, <<"6", "4">>>>,
     <<8, <<"8">>, <<"2", "5", "5">>, <<"2", "5", "6">>>>,
     <<10, <<"1", "0">>, <<"1", "0", "2", "3">>, <<"1", "0", "2", "4">>>>,
     <<12, <<"1", "2">>, <<"4", "0", "9", "5">>, <<"4", "0", "9", "6">>>>}

\* C4: an address event answers, in this order: text int() rejects, the
\* invalid-number message; a negative integer, the negative-number message;
\* an integer above 2^w - 1, the range message naming that maximum;
\* otherwise a picture.  A picture is sent only for 0 <= v <= 2^w - 1; -1,
\* 2^w and non-numeric text never get one.
C4_Validation ==
    last.handler = "handle_number" =>
        LET n == PyInt(last.data)
            w == LastWidth
        IN  /\ n = {} => ShowsError("invalid")
            /\ (n # {} /\ The(n) < 0) => ShowsError("negative")
            /\ (n # {} /\ The(n) >= 0 /\ AboveMax(The(n), w)) => ShowsError("too_big")
            /\ (n # {} /\ The(n) >= 0 /\ ~AboveMax(The(n), w)) => ShowsPhoto
            /\ ~NoPhoto => (n # {} /\ w >= 0 /\ 0 <= The(n) /\ The(n) <= 2^w - 1)
            /\ last.data = <<"-", "1">> => (ShowsError("negative") /\ NoPhoto)
            /\ last.data = <<"a", "b", "c">> => (ShowsError("invalid") /\ NoPhoto)
            /\ \A e \in WidthEdge :
                   w = e[1] =>
                       /\ last.data = e[3] => ShowsPhoto
                       /\ last.data = e[4] =>
                              /\ ShowsError("too_big")
                              /\ NoPhoto
                              /\ \A t \in Shown[1].text : t.args = <<e[2], e[3]>>
            /\ last.raised = ""

C4_Witness ==
    /\ last.handler = "handle_number"
    /\ LastData.bits = {12}
    /\ last.data = <<"4", "0", "9", "6">>
    /\ ShowsError("too_big")
    /\ \A t \in Shown[1].text : t.args = <<<<"1", "2">>, <<"4", "0", "9", "5">>>>

\* The address event that C5 and C6 are about: a width from the keyboard is
\* recorded and the text is an integer in 0..2^w - 1.
AcceptedAddress ==
    /\ last.handler = "handle_number"
    /\ LastData.bits # {}
    /\ LastWidth \in {6, 8, 10, 12}
    /\ PyInt(last.data) # {}
    /\ The(PyInt(last.data)) \in 0..(2^LastWidth - 1)

\* C5: the picture of an accepted address has exactly w slots, side by side
\* from left to right and labelled 1..w, and slot i is ON (upper half white,
\* lower half panel colour) iff bit i-1 of v is 1, OFF (the reverse)
\* otherwise.
C5_SlotsShowBits ==
    AcceptedAddress =>
        /\ ShowsPhoto
        /\ LET img == LastImage
               w   == LastWidth
               v   == The(PyInt(last.data))
               fr  == Frames(img)
               lb  == Labels(img)
           IN  /\ Len(fr) = w
               /\ Len(lb) = w
               /\ \A i \in 1..w :
                      /\ i > 1 => fr[i].box[1] > fr[i - 1].box[3]
                      /\ lb[i].text = LabelText[i]
                      /\ lb[i].box[1] > fr[i].box[1] /\ lb[i].box[1] < fr[i].box[3]
                      /\ lb[i].box[2] > fr[i].box[4]
                      /\ IF BitOf(v, i - 1) = 1 THEN SlotOn(img, fr[i]) ELSE SlotOff(img, fr[i])

\* Width 8, address 5: eight slots, exactly slots 1 and 3 ON.
C5_Witness ==
    /\ AcceptedAddress
    /\ LastWidth = 8
    /\ last.data = <<"5">>
    /\ ShowsPhoto
    /\ Len(Frames(LastImage)) = 8
    /\ {i \in 1..8 : SlotOn(LastImage, Frames(LastImage)[i])} = {1, 3}
    /\ {i \in 1..8 : SlotOff(LastImage, Frames(LastImage)[i])} = {2, 4, 5, 6, 7, 8}

\* C6: the string handed to the renderer has length w and is the reverse of
\* the zero-padded most-significant-first binary string of v (its character
\* j is bit j-1 of v), and the slots of the picture, read slot 1 least
\* significant, spell v.
C6_RoundTrip ==
    AcceptedAddress =>
        LET w == LastWidth
            v == The(PyInt(last.data))
            b == BinaryOf(v, w)
            msb == [k \in 1..w |-> IF BitOf(v, w - k) = 1 THEN "1" ELSE "0"]
        IN  /\ Len(b) = w
            /\ \A j \in 1..w : b[j] = msb[w + 1 - j]
            /\ ShowsPhoto
            /\ Len(Frames(LastImage)) = w
            /\ DecodeSlots(LastImage, w) = v

\* Width 12, address 2048: only the last slot is ON.
C6_Witness ==
    /\ AcceptedAddress
    /\ LastWidth = 12
    /\ last.data = <<"2", "0", "4", "8">>
    /\ ShowsPhoto
    /\ DecodeSlots(LastImage, 12) = 2048
    /\ {i \in 1..12 : SlotOn(LastImage, Frames(LastImage)[i])} = {12}

(***************************************************************************)
(* Session frame and invariants.                                           *)
(***************************************************************************)
\* The event e was an address event answered with an error text.
IsAddressError(e) ==
    /\ e.handler = "handle_number"
    /\ Len(e.out) = 1
    /\ e.out[1].method = "reply_text"

\* The event e was an address event answered with a picture of w slots.
IsPhotoOfWidth(e, w) ==
    /\ e.handler = "handle_number"
    /\ Len(e.out) = 1
    /\ e.out[1].method = "reply_photo"
    /\ \A img \in e.out[1].photo : Len(Frames(img)) = w
    /\ e.out[1].photo # {}

\* C7: an address event answered with an error leaves every session as it
\* was, and when the same user's next event is an address within the range
\* of the width the session had before the error, it is answered with a
\* picture of that width, with no selection in between.
C7_ErrorKeepsSession ==
    [][/\ IsAddressError(last') => user_data' = user_data
       /\ \A u \in Users :
              LET w == IF user_data[u].bits = {} THEN 8 ELSE The(user_data[u].bits)
                  n == PyInt(last'.data)
              IN  (/\ IsAddressError(last)
                   /\ last.user = u
                   /\ last'.handler = "handle_number"
                   /\ last'.user = u
                   /\ w >= 1
                   /\ n # {}
                   /\ The(n) \in 0..(2^w - 1))
                  => (IsPhotoOfWidth(last', w) /\ user_data' = user_data)]_vars

\* A session with language and width recorded has just been told that 64
\* is too big.
C7_Witness ==
    /\ IsAddressError(last)
    /\ last.data = <<"6", "4">>
    /\ LastData = [lang |-> {CZ}, bits |-> {6}]
    /\ ShowsError("too_big")

\* C8: the recorded bit width of every session is unset or one of 6, 8,
\* 10, 12.
C8_BitsAllowed == \A u \in Users : user_data[u].bits \subseteq {6, 8, 10, 12}

\* C9: the recorded language of every session is unset or one of ua, cz.
C9_LangSupported ==
    \A u \in Users : user_data[u].lang \subseteq {<<"u", "a">>, <<"c", "z">>}

\* C10: an error text of an address event is written in the session's
\* language, Ukrainian when none is recorded (stated for sessions whose
\* language is unset or supported).
C10_ErrorInSessionLanguage ==
    (IsAddressError(last) /\ LastData.lang \subseteq {UA, CZ}) =>
        \A t \in Shown[1].text :
            (IF LastData.lang = {} THEN UA ELSE The(LastData.lang)) \in t.langs

(***************************************************************************)
(* Failures inside handle_number.                                          *)
(***************************************************************************)
\* C11: no failure raised while an address event is handled leaves the
\* handler: the handler ends without an exception, the user is shown one
\* message or picture, and when the send inside the try failed that message
\* is the invalid-input message.
C11_FailuresCaught ==
    last.handler = "handle_number" =>
        /\ last.raised = ""
        /\ Len(Shown) = 1
        /\ "send" \in last.faults => ShowsError("invalid")

(***************************************************************************)
(* Sessions of different users.                                            *)
(***************************************************************************)
\* What a handler does with a session and an input.
Respond(handler, ud, data) ==
    CASE handler = "start" -> start(ud)
      [] handler = "language_selected" -> language_selected(ud, data)
      [] handler = "bits_selected" -> bits_selected(ud, data)
      [] handler = "handle_number" -> handle_number(ud, data)

\* C12: an event of one user leaves the session of every other user as it
\* was, and what it shows and records is what its handler makes of that
\* user's own session and input, whatever the other sessions hold.
C12_SessionsIndependent ==
    [][LET u == last'.user
           r == Respond(last'.handler, user_data[u], last'.data)
       IN  /\ \A o \in Users \ {u} : user_data'[o] = user_data[o]
           /\ last'.out = r.out
           /\ last'.raised = r.raised
           /\ user_data'[u] = r.ud]_vars

\* Two users with different sessions, the second one just sent an address.
C12_Witness ==
    /\ user_data[1] = [lang |-> {UA}, bits |-> {6}]
    /\ user_data[2] = [lang |-> {CZ}, bits |-> {12}]
    /\ last.user = 2
    /\ last.data = <<"6", "4">>
    /\ IsPhotoOfWidth(last, 12)

(***************************************************************************)
(* Handlers of one user interleaved at their awaits.                       *)
(***************************************************************************)
\* The width a width button carries.
WidthOfPayload(data) ==
    CASE data = <<"b", "i", "t", "s", "_", "6">> -> 6
      [] data = <<"b", "i", "t", "s", "_", "1", "2">> -> 12
      [] OTHER -> 0 - 1

\* The language a language button carries.
LangOfPayload(data) ==
    CASE data = <<"l", "a", "n", "g", "_", "u", "a">> -> <<"u", "a">>
      [] data = <<"l", "a", "n", "g", "_", "c", "z">> -> <<"c", "z">>
      [] OTHER -> <<>>

\* C13: with the handlers of one user interleaved at their awaits, the
\* recorded width changes only when a bit-width choice resumes after its
\* answer, to the width of that choice and with the language left alone;
\* the recorded language changes only when a language choice resumes, to
\* its language and with the width left alone; nothing recorded is ever
\* unset; and an address event that ends answers with the one width it read:
\* a picture of that many slots for an address within that width's range,
\* the range message naming that width for an address above it.
C13_NoLostUpdate ==
    [][\A u \in Users :
          /\ user_data'[u].bits # user_data[u].bits =>
                 \E t \in tasks \ tasks' :
                     /\ t.handler = "bits_selected" /\ t.user = u /\ t.pc = "answer"
                     /\ user_data'[u].bits = {WidthOfPayload(t.data)}
                     /\ user_data'[u].lang = user_data[u].lang
          /\ user_data'[u].lang # user_data[u].lang =>
                 \E t \in tasks \ tasks' :
                     /\ t.handler = "language_selected" /\ t.user = u /\ t.pc = "answer"
                     /\ user_data'[u].lang = {LangOfPayload(t.data)}
                     /\ user_data'[u].bits = user_data[u].bits
          /\ user_data[u].bits # {} => user_data'[u].bits # {}
          /\ user_data[u].lang # {} => user_data'[u].lang # {}
          /\ \A t \in tasks \ tasks' :
                 (t.handler = "handle_number" /\ t.user = u /\ t.pc = "send") =>
                     LET w == The(t.bits)
                         v == The(PyInt(t.data))
                     IN  /\ last'.handler = "handle_number" /\ last'.data = t.data
                         /\ IF v <= 2^w - 1
                            THEN IsPhotoOfWidth(last', w)
                            ELSE /\ IsAddressError(last')
                                 /\ \A x \in last'.out[1].text :
                                        x.id = "too_big" /\ x.args[1] = IntStr(w)]_vars

\* A bit-width choice and a language choice are both suspended after the
\* other was recorded, while an address read with the earlier width waits
\* for its send.
C13_Witness ==
    /\ user_data[1] = [lang |-> {CZ}, bits |-> {12}]
    /\ \E t \in tasks : t.handler = "handle_number" /\ t.pc = "send" /\ t.bits = {6}
    /\ \E t \in tasks : t.handler = "language_selected" /\ t.pc = "send"

(***************************************************************************)
(* Startup.                                                                *)
(***************************************************************************)
\* C14: when the token is absent or empty the process ends in the error
\* of the token check with no handler registered, polling never started
\* and no event served; and whenever a handler is registered or an event
\* has been served, the token is there and the token check is passed.
C14_TokenRequired ==
    /\ app.token \in {{}, {<<>>}} =>
           /\ app.pc \in {"getenv", "check", "failed"}
           /\ app.handlers = <<>>
           /\ last = NoEvent
           /\ \A u \in Users : user_data[u] = NoData
    /\ (app.handlers # <<>> \/ last # NoEvent \/ app.pc = "run_polling") =>
           /\ app.token \notin {{}, {<<>>}}
           /\ app.pc \in {"add_handler", "run_polling"}
    /\ last # NoEvent =>
           /\ app.pc = "run_polling"
           /\ app.handlers = AllHandlers

\* The start with the empty string for a token has ended in the error.
C14_Witness ==
    /\ app.token = {<<>>}
    /\ app.pc = "failed"
    /\ last = NoEvent

(***************************************************************************)
(* Routing.                                                                *)
(***************************************************************************)
\* The first five characters of an update's content.
Head5(data) == IF Len(data) >= 5 THEN <<data[1], data[2], data[3], data[4], data[5]>> ELSE <<>>

\* C15: a button press whose payload begins with lang_ is handled by
\* language_selected, one whose payload begins with bits_ by bits_selected,
\* and neither handler handles anything else; a button press with neither
\* prefix is handled by nobody and leaves every session as it was; and a
\* text message that begins with a command is never given to handle_number.
C15_Routing ==
    [][LET e == last'
       IN  /\ (e.kind = "callback_query" /\ Head5(e.data) = <<"l", "a", "n", "g", "_">>)
                  <=> e.handler = "language_selected"
           /\ (e.kind = "callback_query" /\ Head5(e.data) = <<"b", "i", "t", "s", "_">>)
                  <=> e.handler = "bits_selected"
           /\ (/\ e.kind = "callback_query"
               /\ Head5(e.data) \notin {<<"l", "a", "n", "g", "_">>, <<"b", "i", "t", "s", "_">>})
                  => /\ e.handler = "none"
                     /\ e.out = <<>>
                     /\ user_data' = user_data
           /\ (/\ e.kind = "message"
               /\ Len(e.data) >= 2
               /\ e.data[1] = "/"
               /\ e.data[2] # " ")
                  => /\ e.handler \in {"start", "none"}
                     /\ e.handler = "start" => Split(e.data, " ")[1] = StartText
                     /\ e.handler = "none" => e.out = <<>> /\ user_data' = user_data]_vars

\* With a language and a width recorded, the command /help was given to
\* no handler.
C15_Witness ==
    /\ last.kind = "message"
    /\ last.data = <<"/", "h", "e", "l", "p">>
    /\ last.handler = "none"
    /\ user_data[1] = [lang |-> {UA}, bits |-> {6}]

(***************************************************************************)
(* What an event may change in a session.                                  *)
(***************************************************************************)
\* C16: an address event of a user whose session has the width w recorded
\* is answered with w: a picture of w slots for an address in 0..2^w-1, the
\* range message naming w for an address above it, a text message and no
\* picture otherwise; the recorded width changes only in a bits_selected
\* event of that user and the recorded language only in a language_selected
\* event of that user, so start and handle_number change neither; and a
\* recorded language or width is never unset.
C16_WidthStays ==
    [][\A u \in Users :
          LET e == last'
              n == PyInt(e.data)
          IN  /\ (e.handler = "handle_number" /\ e.user = u /\ user_data[u].bits # {}) =>
                     LET w == The(user_data[u].bits)
                     IN  /\ user_data'[u].bits = {w}
                         /\ (n # {} /\ 0 <= The(n) /\ The(n) <= 2^w - 1) => IsPhotoOfWidth(e, w)
                         /\ (n # {} /\ The(n) > 2^w - 1) =>
                                /\ IsAddressError(e)
                                /\ \A x \in e.out[1].text :
                                       x.id = "too_big" /\ x.args[1] = IntStr(w)
                         /\ (n = {} \/ The(n) < 0 \/ The(n) > 2^w - 1) => IsAddressError(e)
              /\ user_data'[u].bits # user_data[u].bits =>
                     e.handler = "bits_selected" /\ e.user = u
              /\ user_data'[u].lang # user_data[u].lang =>
                     e.handler = "language_selected" /\ e.user = u
              /\ user_data[u].bits # {} => user_data'[u].bits # {}
              /\ user_data[u].lang # {} => user_data'[u].lang # {}]_vars

\* With the width 12 recorded, /start was answered and the width is still
\* recorded.
C16_Witness ==
    /\ last.handler = "start"
    /\ last.user = 1
    /\ ShowsBitOptions("reply_text", CZ)
    /\ user_data[1] = [lang |-> {CZ}, bits |-> {12}]

(***************************************************************************)
(* An address before any width is chosen.                                  *)
(***************************************************************************)
\* C17: in every state of the conversation a text that is not a command is
\* given to handle_number, which answers it with one message or picture
\* and raises nothing; and when the user's session has no width recorded,
\* the address is checked against 255: 0..255 is answered with a picture of
\* exactly 8 slots, an address above 255 with the range message naming 8
\* bits and the maximum 255, and the session still has no width recorded
\* afterwards.
C17_DefaultWidth ==
    [][/\ \A u \in Users : \A text \in MessageTexts :
              (text[1] # "/") =>
                  /\ Dispatch("message", text) = "handle_number"
                  /\ handle_number(user_data[u], text).raised = ""
                  /\ Len(handle_number(user_data[u], text).out) = 1
                  /\ handle_number(user_data[u], text).ud = user_data[u]
       /\ \A u \in Users :
              LET e == last'
                  n == PyInt(e.data)
              IN  (e.handler = "handle_number" /\ e.user = u /\ user_data[u].bits = {}) =>
                      /\ user_data'[u] = user_data[u]
                      /\ (n # {} /\ 0 <= The(n) /\ The(n) <= 255) => IsPhotoOfWidth(e, 8)
                      /\ (n # {} /\ The(n) > 255) =>
                             /\ IsAddressError(e)
                             /\ \A x \in e.out[1].text :
                                    /\ x.id = "too_big"
                                    /\ x.args = <<<<"8">>, <<"2", "5", "5">>>>
                      /\ (n = {} \/ The(n) < 0) => IsAddressError(e)]_vars

\* With a language but no width chosen, 255 was answered with a picture of
\* 8 slots, all ON, and no width is recorded.
C17_Witness ==
    /\ last.handler = "handle_number"
    /\ last.data = <<"2", "5", "5">>
    /\ user_data[1] = [lang |-> {CZ}, bits |-> {}]
    /\ IsPhotoOfWidth(last, 8)
    /\ \A k \in 1..8 : SlotOn(LastImage, Frames(LastImage)[k])

(***************************************************************************)
(* One response for each event.                                            *)
(***************************************************************************)
\* C18: with a sink that accepts every call, each event is answered with
\* exactly one response and its handler raises nothing: an address event
\* with one new text message or one picture, /start with one new message,
\* a button press with one edit of the pressed message.
C18_OneResponse ==
    /\ last.handler # "none" => last.raised = "" /\ Len(Shown) = 1
    /\ last.handler = "handle_number" =>
           \/ Shown[1].method = "reply_text" /\ Shown[1].text # {} /\ Shown[1].photo = {}
           \/ Shown[1].method = "reply_photo" /\ Shown[1].text = {} /\ Shown[1].photo # {}
    /\ last.handler = "start" => Shown[1].method = "reply_text"
    /\ last.handler \in {"language_selected", "bits_selected"} =>
           Shown[1].method = "edit_message_text"

(***************************************************************************)
(* The geometry of the picture.  A canvas of size <<w, h>> has the pixels  *)
(* (0..w-1) x (0..h-1); a box <<x0, y0, x1, y1>> covers x0..x1 and y0..y1. *)
(***************************************************************************)
\* The panel of an image: the rectangle drawn first.
Panel(img) == img.ops[1]

\* Every pixel of the box is a pixel of the canvas.
Within(box, size) ==
    /\ 0 <= box[1] /\ box[1] <= box[3] /\ box[3] <= size[1] - 1
    /\ 0 <= box[2] /\ box[2] <= box[4] /\ box[4] <= size[2] - 1

\* Canvas size, slot starts, slots apart, first and last slot at the margins.
SlotGeometry(img) ==
    LET n == Len(Frames(img))
        f == Frames(img)
    IN  /\ n \in 1..MaxSwitches
        /\ img.size[1] = n * (switch_width + spacing) + 2 * margin - spacing
        /\ img.size[2] = switch_height + 80
        /\ \A i \in 1..n :
               /\ f[i].box[1] = margin + (i - 1) * (switch_width + spacing)
               /\ f[i].box[3] = f[i].box[1] + switch_width
               /\ Within(f[i].box, img.size)
        /\ \A i, j \in 1..n : i < j => f[i].box[3] < f[j].box[1]
        /\ f[1].box[1] = margin
        /\ f[n].box[3] = img.size[1] - margin

\* The panel surrounds every slot frame.
PanelAroundSlots(img) ==
    \A i \in 1..Len(Frames(img)) :
        LET b == Frames(img)[i].box
            p == Panel(img).box
        IN  p[1] < b[1] /\ p[2] < b[2] /\ b[3] < p[3] /\ b[4] < p[4]

\* C19: the picture of n slots, n in 1..12, is n*(32+6)+2*20-6 wide and
\* 80+80 high; slot i (from 0) starts at 20+i*(32+6), so the frames lie
\* apart, the first starts at the margin and the last ends at the width
\* minus the margin; and the panel, which surrounds the slots, lies
\* entirely within the canvas.
C19_Geometry ==
    (last.handler = "handle_number" /\ ShowsPhoto) =>
        /\ SlotGeometry(LastImage)
        /\ Panel(LastImage).fill = "#cc0000"
        /\ PanelAroundSlots(LastImage)
        /\ Within(Panel(LastImage).box, LastImage.size)

(***************************************************************************)
(* The labels of the picture.                                              *)
(***************************************************************************)
\* The texts ON drawn in an image.
OnLabels(img) == SelectSeq(img.ops, LAMBDA o : o.op = "text" /\ o.text = <<"O", "N">>)

\* Label i is the number i, drawn under frame i and between its sides.
LabelsBelowFrames(img) ==
    /\ Len(Labels(img)) = Len(Frames(img))
    /\ \A i \in 1..Len(Frames(img)) :
           /\ Labels(img)[i].text = NatStr(i)
           /\ Labels(img)[i].box[2] > Frames(img)[i].box[4]
           /\ Labels(img)[i].box[1] > Frames(img)[i].box[1]
           /\ Labels(img)[i].box[1] < Frames(img)[i].box[3]

\* The statement of C20 as the specification has it: ON is drawn once, at
\* the margin, at a height above the top edge of the panel, and each slot's
\* number under its frame.
C20_OnAbovePanel ==
    (last.handler = "handle_number" /\ ShowsPhoto) =>
        /\ Len(OnLabels(LastImage)) = 1
        /\ OnLabels(LastImage)[1].box[1] = margin
        /\ OnLabels(LastImage)[1].box[2] < Panel(LastImage).box[2]
        /\ LabelsBelowFrames(LastImage)

\* C20: ON is drawn exactly once in a picture, in white, at the margin and
\* inside the panel: below the top edge of the panel and its border, and
\* above the row of slots; and the number i of each slot, from 1, is drawn
\* under the frame of slot i.
C20_Labels ==
    (last.handler = "handle_number" /\ ShowsPhoto) =>
        /\ Len(OnLabels(LastImage)) = 1
        /\ OnLabels(LastImage)[1].box[1] = margin
        /\ OnLabels(LastImage)[1].fill = "white"
        /\ OnLabels(LastImage)[1].box[2] >= Panel(LastImage).box[2] + Panel(LastImage).width
        /\ OnLabels(LastImage)[1].box[2] < Frames(LastImage)[1].box[2]
        /\ OnLabels(LastImage)[1].box[1] > Panel(LastImage).box[1]
        /\ LabelsBelowFrames(LastImage)

\* The picture of 4095 on twelve slots.
C20_Witness ==
    /\ last.handler = "handle_number"
    /\ last.data = <<"4", "0", "9", "5">>
    /\ ShowsPhoto
    /\ Len(Labels(LastImage)) = 12
    /\ Len(OnLabels(LastImage)) = 1

=============================================================================
